---- MODULE Spec2Model ----
(***************************************************************************)
(* LANShare (app.py): a Flask server sharing files of one upload directory *)
(* and a list of text snippets kept in one JSON file.                      *)
(*                                                                         *)
(* A file name is a sequence of one-character strings, a path is a         *)
(* sequence of names counted from the filesystem root, and the filesystem  *)
(* is a set of entries [path, kind, data].  The data of a file is a        *)
(* sequence of chunks, one chunk per write() call of the writer.           *)
(*                                                                         *)
(* Spec, FileSpec and TextSpec run one request at a time, each handler as  *)
(* one action: Spec has every route, FileSpec those of the file store and  *)
(* TextSpec those of the text store.  TextConcSpec and FileConcSpec run    *)
(* the handlers of concurrent requests step by step, a step being one      *)
(* system call.                                                            *)
(***************************************************************************)
EXTENDS Integers, Sequences, FiniteSets, TLC

VARIABLES
    fs,         \* the filesystem: set of entries [path, kind, data]
    textFile,   \* TEXT_FILE: [exists, bytes], the bytes a sequence of JSON tokens
    nUploads,   \* history: upload requests that carried a file so far
    nAdds,      \* history: snippets created so far
    last,       \* history: the request answered last and its response
    pre,        \* history: fs and textFile when that request arrived
    pc,         \* per request thread: the handler's position
    req,        \* per request thread: the request being served
    loc,        \* per request thread: the handler's local variables
    resp,       \* per request thread: the response sent
    started,    \* history: requests taken up by the threads so far
    undisturbed \* history, per thread: no other thread has opened or written
                \* the file this thread saves since this thread opened it

vars == <<fs, textFile, nUploads, nAdds, last, pre, pc, req, loc, resp, started, undisturbed>>

(***************************************************************************)
(* Bounds of the model.                                                    *)
(***************************************************************************)
MaxUploads == 3
MaxAdds == 3
MaxMixed == 2
MaxRequests == 3

(***************************************************************************)
(* Names and paths.                                                        *)
(***************************************************************************)
Sep == "/"
ExtSep == "."

APP_DIR == << <<"A">> >>
UPLOAD_FOLDER == << <<"A">>, <<"U">> >>
SUB_DIR == << <<"A">>, <<"U">>, <<"d">> >>

Name_a_t == <<"a", ".", "t">>
Name_a_1_t == <<"a", "_", "1", ".", "t">>
Name_a_2_t == <<"a", "_", "2", ".", "t">>
Name_up_a_t == <<".", ".", "/", "a", ".", "t">>
Name_d_a_t == <<"d", "/", "a", ".", "t">>
Name_d == <<"d">>
Name_dotdot == <<".", ".">>
Name_ghost == <<"g">>

UploadNames == {<<>>, Name_a_t, Name_up_a_t, Name_d_a_t, Name_d}
UrlNames == {Name_a_t, Name_a_1_t, Name_up_a_t, Name_d, Name_dotdot, Name_ghost}

DigitChar == <<"0", "1", "2", "3", "4", "5", "6", "7", "8", "9">>

RECURSIVE str(_)
str(n) ==
    IF n < 10 THEN <<DigitChar[n + 1]>>
    ELSE str(n \div 10) \o <<DigitChar[(n % 10) + 1]>>

\* s.rfind(c): the last index of c in s, counted from 1; 0 when absent
rfind(s, c) ==
    IF \E i \in 1..Len(s) : s[i] = c
    THEN CHOOSE i \in 1..Len(s) : s[i] = c /\ \A j \in (i + 1)..Len(s) : s[j] # c
    ELSE 0

HasSep(name) == \E i \in 1..Len(name) : name[i] = Sep

\* os.path.splitext: the extension starts at the last dot of the last path
\* component, unless that component has only dots before it
splitext(p) ==
    LET sepIndex == rfind(p, Sep)
        dotIndex == rfind(p, ExtSep)
    IN  IF /\ dotIndex > sepIndex
           /\ \E i \in (sepIndex + 1)..(dotIndex - 1) : p[i] # ExtSep
        THEN [base |-> SubSeq(p, 1, dotIndex - 1), ext |-> SubSeq(p, dotIndex, Len(p))]
        ELSE [base |-> p, ext |-> <<>>]

\* the components of a name, split at every separator
RECURSIVE Segments(_)
Segments(name) ==
    IF ~HasSep(name) THEN <<name>>
    ELSE LET i == CHOOSE k \in 1..Len(name) :
                      name[k] = Sep /\ \A j \in 1..(k - 1) : name[j] # Sep
         IN  <<SubSeq(name, 1, i - 1)>> \o Segments(SubSeq(name, i + 1, Len(name)))

(***************************************************************************)
(* The filesystem.                                                         *)
(***************************************************************************)
Paths(f) == {e.path : e \in f}
Entry(f, p) == CHOOSE e \in f : e.path = p
IsDir(f, p) == p = <<>> \/ (p \in Paths(f) /\ Entry(f, p).kind = "dir")
IsFile(f, p) == p \in Paths(f) /\ Entry(f, p).kind = "file"
Parent(p) == IF p = <<>> THEN <<>> ELSE SubSeq(p, 1, Len(p) - 1)

Dir(p) == [path |-> p, kind |-> "dir", data |-> <<>>]
File(p, d) == [path |-> p, kind |-> "file", data |-> d]

\* Path resolution by the kernel from directory cur: ok is FALSE when a
\* component that must be a directory is missing or is a file
RECURSIVE Walk(_, _, _)
Walk(f, cur, segs) ==
    IF segs = <<>> THEN [ok |-> TRUE, path |-> cur]
    ELSE LET seg == Head(segs)
             rest == Tail(segs)
         IN  IF seg = <<>> \/ seg = <<".">> THEN Walk(f, cur, rest)
             ELSE IF seg = <<".", ".">> THEN Walk(f, Parent(cur), rest)
             ELSE IF rest = <<>> THEN [ok |-> TRUE, path |-> Append(cur, seg)]
             ELSE IF IsDir(f, Append(cur, seg)) THEN Walk(f, Append(cur, seg), rest)
             ELSE [ok |-> FALSE, path |-> <<>>]

\* os.path.join(app.config['UPLOAD_FOLDER'], filename), resolved
Resolve(f, filename) ==
    IF filename # <<>> /\ filename[1] = Sep
    THEN Walk(f, <<>>, Segments(filename))
    ELSE Walk(f, UPLOAD_FOLDER, Segments(filename))

\* os.path.exists(filepath)
exists(f, filename) ==
    LET r == Resolve(f, filename)
    IN  r.ok /\ (r.path = <<>> \/ r.path \in Paths(f))

WithoutPath(f, p) == {e \in f : e.path # p}

(***************************************************************************)
(* upload_file                                                             *)
(***************************************************************************)
\* mutant: "if" in place of "while", the candidate is not tested again
UploadLoopOnce(f, filename, parts, counter) ==
    IF exists(f, filename)
    THEN parts.base \o <<"_">> \o str(counter) \o parts.ext
    ELSE filename

\* the while loop of upload_file: the first candidate that does not exist
RECURSIVE UploadLoop(_, _, _, _)
UploadLoop(f, filename, parts, counter) ==
    IF exists(f, filename)
    THEN UploadLoop(f, parts.base \o <<"_">> \o str(counter) \o parts.ext,
                    parts, counter + 1)
    ELSE filename

\* mutant: exclusive creation, the open fails on a name that exists
CanCreateOnly(f, filename) ==
    LET r == Resolve(f, filename)
    IN  r.ok /\ r.path # <<>> /\ r.path \notin Paths(f)

\* open(dst, "wb") of file.save succeeds on a path whose parent is a
\* directory and that is not itself a directory
CanOpenForWrite(f, filename) ==
    LET r == Resolve(f, filename)
    IN  r.ok /\ r.path # <<>> /\ ~IsDir(f, r.path)

\* file.save(filepath): create or truncate, write the stream, close
SaveFile(f, filename, data) ==
    LET p == Resolve(f, filename).path
    IN  WithoutPath(f, p) \cup {File(p, data)}

\* the bytes of the n-th upload, sent in so many chunks
Data(n, chunks) == [k \in 1..chunks |-> 10 * n + k]

upload_file(f, hasFile, name, data) ==
    IF ~hasFile THEN [status |-> 400, filename |-> <<>>, fs |-> f]
    ELSE IF name = <<>> THEN [status |-> 400, filename |-> <<>>, fs |-> f]
    ELSE LET filename == UploadLoop(f, name, splitext(name), 1)
         IN  IF CanOpenForWrite(f, filename)
             THEN [status |-> 200, filename |-> filename,
                   fs |-> SaveFile(f, filename, data)]
             ELSE [status |-> 500, filename |-> <<>>, fs |-> f]

(***************************************************************************)
(* download_file and delete_file                                           *)
(***************************************************************************)
\* the <filename> converter of the two routes matches one non-empty path
\* segment: a URL with a separator in that place reaches no handler
RouteMatches(name) == name # <<>> /\ ~HasSep(name)

\* send_from_directory: safe_join refuses a name that leaves the directory,
\* and only a regular file is sent
download_file(f, name) ==
    LET p == Append(UPLOAD_FOLDER, name)
    IN  IF ~RouteMatches(name) THEN [status |-> 404, data |-> <<>>]
        ELSE IF name = <<".", ".">> THEN [status |-> 404, data |-> <<>>]
        ELSE IF IsFile(f, p) THEN [status |-> 200, data |-> Entry(f, p).data]
        ELSE [status |-> 404, data |-> <<>>]

\* os.remove(filepath) raises on a directory
delete_file(f, name) ==
    IF ~RouteMatches(name) THEN [status |-> 404, fs |-> f]
    ELSE IF exists(f, name)
         THEN LET p == Resolve(f, name).path
              IN  IF IsDir(f, p) THEN [status |-> 500, fs |-> f]
                  ELSE [status |-> 200, fs |-> WithoutPath(f, p)]
         ELSE [status |-> 404, fs |-> f]

\* get_files: the regular files directly inside the upload directory
get_files(f) ==
    {e.path[Len(e.path)] : e \in {x \in f : x.kind = "file" /\ Parent(x.path) = UPLOAD_FOLDER}}

(***************************************************************************)
(* The text store.  A snippet is [id, content, time, born]; born is a     *)
(* history field (the number of the add that created the snippet), which   *)
(* the program neither stores nor reads.                                   *)
(***************************************************************************)
WhiteSpace == {" ", "\t"}

Ids == {"id1", "id2"}
Times == {"t1", "t2"}

NoBody == [kind |-> "none", content |-> <<>>]
Content(c) == [kind |-> "content", content |-> c]
Bodies ==
    {NoBody, [kind |-> "nocontent", content |-> <<>>],
     Content(<<>>), Content(<<" ", "\t">>), Content(<<" ", "h", "\t">>),
     Content(<<"h", " ", "h">>)}

NoSnippet == [id |-> "", content |-> <<>>, time |-> "", born |-> 0]
Open == [tok |-> "[", snippet |-> NoSnippet]
Close == [tok |-> "]", snippet |-> NoSnippet]
Object(t) == [tok |-> "{}", snippet |-> t]

\* TEXT_FILE is [exists, bytes]; its bytes are a sequence of JSON tokens
MissingFile == [exists |-> FALSE, bytes |-> <<>>]

\* json.dump(texts, f, ensure_ascii=False, indent=2): the array's tokens
dump(texts) == <<Open>> \o [i \in 1..Len(texts) |-> Object(texts[i])] \o <<Close>>

\* json.load(f): the array, or an error on anything but one whole array
IsDocument(bytes) ==
    /\ Len(bytes) >= 2
    /\ bytes[1] = Open
    /\ bytes[Len(bytes)] = Close
    /\ \A i \in 2..(Len(bytes) - 1) : bytes[i].tok = "{}"
load(bytes) == [i \in 1..(Len(bytes) - 2) |-> bytes[i + 1].snippet]

\* str.strip(): drop the whitespace at both ends
RECURSIVE strip(_)
strip(s) ==
    IF s = <<>> THEN s
    ELSE IF s[1] \in WhiteSpace THEN strip(Tail(s))
    ELSE IF s[Len(s)] \in WhiteSpace THEN strip(SubSeq(s, 1, Len(s) - 1))
    ELSE s

\* load_texts: [] without the file, json.load raises on a broken one
load_texts(tf) ==
    IF ~tf.exists THEN [ok |-> TRUE, texts |-> <<>>]
    ELSE IF IsDocument(tf.bytes) THEN [ok |-> TRUE, texts |-> load(tf.bytes)]
    ELSE [ok |-> FALSE, texts |-> <<>>]

\* save_texts run to its end: open(TEXT_FILE, 'w'), json.dump, close
save_texts(texts) == [exists |-> TRUE, bytes |-> dump(texts)]

\* mutant: texts.append(snippet)
insertLast(texts, snippet) == texts \o <<snippet>>

\* texts.insert(0, snippet)
insert0(texts, snippet) == <<snippet>> \o texts

\* mutant: only the first snippet of that id is dropped
WithoutFirstId(texts, text_id) ==
    IF \A i \in 1..Len(texts) : texts[i].id # text_id THEN texts
    ELSE LET k == CHOOSE i \in 1..Len(texts) :
                      texts[i].id = text_id /\ \A j \in 1..(i - 1) : texts[j].id # text_id
         IN  SubSeq(texts, 1, k - 1) \o SubSeq(texts, k + 1, Len(texts))

\* [t for t in texts if t['id'] != text_id]
WithoutId(texts, text_id) == SelectSeq(texts, LAMBDA t : t.id # text_id)

\* mutant: the content is tested for emptiness before it is trimmed
RejectedUntrimmed(body) == body.kind # "content" \/ body.content = <<>>

\* the two 400 answers of add_text: no 'content', or nothing left of it
Rejected(body) == body.kind # "content" \/ strip(body.content) = <<>>

Snippet(body, id, time, born) ==
    [id |-> id, content |-> strip(body.content), time |-> time, born |-> born]

add_text(tf, body, id, time, born) ==
    LET loaded == load_texts(tf)
    IN  IF Rejected(body) THEN [status |-> 400, textFile |-> tf]
        ELSE IF ~loaded.ok THEN [status |-> 500, textFile |-> tf]
        ELSE [status |-> 200,
              textFile |-> save_texts(insert0(loaded.texts, Snippet(body, id, time, born)))]

delete_text(tf, text_id) ==
    LET loaded == load_texts(tf)
    IN  IF ~loaded.ok THEN [status |-> 500, textFile |-> tf]
        ELSE [status |-> 200, textFile |-> save_texts(WithoutId(loaded.texts, text_id))]

clear_texts == [status |-> 200, textFile |-> save_texts(<<>>)]

index(f, tf) ==
    LET loaded == load_texts(tf)
    IN  IF loaded.ok THEN [status |-> 200, files |-> get_files(f), texts |-> loaded.texts]
        ELSE [status |-> 500, files |-> {}, texts |-> <<>>]

(***************************************************************************)
(* One request at a time: every handler is one action.                     *)
(***************************************************************************)
NoRequest ==
    [op |-> "none", status |-> 0, name |-> <<>>, hasFile |-> FALSE, data |-> <<>>,
     body |-> NoBody, id |-> "", out |-> <<>>]

InitFs == {Dir(APP_DIR), Dir(UPLOAD_FOLDER)}

Threads == {1, 2}
Idle ==
    [op |-> "none", name |-> <<>>, data |-> <<>>, body |-> NoBody, id |-> "",
     time |-> "", born |-> 0]
NoLocals == [filename |-> <<>>, counter |-> 0, loaded |-> <<>>, texts |-> <<>>, off |-> 0]
NoResponse == [status |-> 0, out |-> <<>>]

Init ==
    /\ fs \in {InitFs, InitFs \cup {Dir(SUB_DIR)}}
    /\ textFile = MissingFile
    /\ nUploads = 0
    /\ nAdds = 0
    /\ last = NoRequest
    /\ pre = [fs |-> fs, textFile |-> textFile]
    /\ pc = [t \in Threads |-> "idle"]
    /\ req = [t \in Threads |-> Idle]
    /\ loc = [t \in Threads |-> NoLocals]
    /\ resp = [t \in Threads |-> NoResponse]
    /\ started = 0
    /\ undisturbed = [t \in Threads |-> FALSE]

threadVars == <<pc, req, loc, resp, started, undisturbed>>

Answered(r) ==
    /\ last' = r
    /\ pre' = [fs |-> fs, textFile |-> textFile]
    /\ UNCHANGED threadVars

\* room: whether the bound of the model lets one more upload be stored
Upload(room) ==
    /\ \E hasFile \in BOOLEAN, name \in UploadNames :
        /\ hasFile \/ name = <<>>
        /\ LET data == Data(nUploads + 1, 1)
               r == upload_file(fs, hasFile, name, data)
           IN  /\ r.status = 200 => room
               /\ fs' = r.fs
               /\ nUploads' = IF r.status = 200 THEN nUploads + 1 ELSE nUploads
               /\ Answered([NoRequest EXCEPT !.op = "upload", !.status = r.status,
                            !.name = name, !.hasFile = hasFile, !.data = data,
                            !.out = r.filename])
    /\ UNCHANGED <<textFile, nAdds>>

Download ==
    /\ \E name \in UrlNames :
        LET r == download_file(fs, name)
        IN  Answered([NoRequest EXCEPT !.op = "download", !.status = r.status,
                      !.name = name, !.out = r.data])
    /\ UNCHANGED <<fs, textFile, nUploads, nAdds>>

DeleteFile ==
    /\ \E name \in UrlNames :
        LET r == delete_file(fs, name)
        IN  /\ fs' = r.fs
            /\ Answered([NoRequest EXCEPT !.op = "delete", !.status = r.status,
                         !.name = name])
    /\ UNCHANGED <<textFile, nUploads, nAdds>>

\* room: whether the bound of the model lets one more snippet be stored;
\* uuid4() and now() are called only once the body is accepted
AddText(room) ==
    /\ \E body \in Bodies, id \in Ids, time \in Times :
        LET r == add_text(textFile, body, id, time, nAdds + 1)
        IN  /\ r.status = 200 => room
            /\ r.status # 200 => id = "id1" /\ time = "t1"
            /\ textFile' = r.textFile
            /\ nAdds' = IF r.status = 200 THEN nAdds + 1 ELSE nAdds
            /\ Answered([NoRequest EXCEPT !.op = "add_text", !.status = r.status,
                         !.body = body, !.id = id])
    /\ UNCHANGED <<fs, nUploads>>

DeleteText ==
    /\ \E text_id \in Ids :
        LET r == delete_text(textFile, text_id)
        IN  /\ textFile' = r.textFile
            /\ Answered([NoRequest EXCEPT !.op = "delete_text", !.status = r.status,
                         !.id = text_id])
    /\ UNCHANGED <<fs, nUploads, nAdds>>

ClearTexts ==
    /\ textFile' = clear_texts.textFile
    /\ Answered([NoRequest EXCEPT !.op = "clear_texts", !.status = clear_texts.status])
    /\ UNCHANGED <<fs, nUploads, nAdds>>

Index ==
    /\ Answered([NoRequest EXCEPT !.op = "index", !.status = index(fs, textFile).status])
    /\ UNCHANGED <<fs, textFile, nUploads, nAdds>>

\* every handler, with at most MaxMixed stored uploads and snippets
Next ==
    \/ Upload(nUploads + nAdds < MaxMixed)
    \/ Download
    \/ DeleteFile
    \/ AddText(nUploads + nAdds < MaxMixed)
    \/ DeleteText
    \/ ClearTexts
    \/ Index

Spec == Init /\ [][Next]_vars

\* the handlers of the file store, with at most MaxUploads stored uploads
FileNext ==
    \/ Upload(nUploads < MaxUploads)
    \/ Download
    \/ DeleteFile
    \/ Index

FileSpec == Init /\ [][FileNext]_vars

\* the handlers of the text store, with at most MaxAdds stored snippets
TextNext ==
    \/ AddText(nAdds < MaxAdds)
    \/ DeleteText
    \/ ClearTexts
    \/ Index

TextSpec == Init /\ [][TextNext]_vars

(***************************************************************************)
(* Properties of the handlers run one at a time.                           *)
(***************************************************************************)
InUploadDir(name) == Append(UPLOAD_FOLDER, name)
Loaded(tf) == load_texts(tf).texts

\* every directory holds the entries "." and ".."
EntryExists(f, name) ==
    name = <<".">> \/ name = <<".", ".">> \/ InUploadDir(name) \in Paths(f)

Candidate(name, k) == splitext(name).base \o <<"_">> \o str(k) \o splitext(name).ext

ExpectedName(f, name) ==
    IF ~EntryExists(f, name) THEN name
    ELSE Candidate(name, CHOOSE k \in 1..(Cardinality(f) + 1) :
             /\ ~EntryExists(f, Candidate(name, k))
             /\ \A j \in 1..(k - 1) : EntryExists(f, Candidate(name, j)))

StoredAsExpected ==
    /\ last.status = 200
    /\ last.out = ExpectedName(pre.fs, last.name)
    /\ InUploadDir(last.out) \notin Paths(pre.fs)
    /\ fs = pre.fs \cup {File(InUploadDir(last.out), last.data)}

\* C1 as stated: an upload of any non-empty name is stored under the name
\* itself or under base_k.ext for the smallest free k >= 1, is answered with
\* that name, adds exactly one file and changes no file that existed.
C1_AnyNameStored ==
    (last.op = "upload" /\ last.hasFile /\ last.name # <<>>) => StoredAsExpected

\* C1 amended: the same for every non-empty name without a path separator.
C1_PlainNameStored ==
    (last.op = "upload" /\ last.hasFile /\ last.name # <<>> /\ ~HasSep(last.name))
        => StoredAsExpected

\* a.t uploaded for the third time into a directory without other files
C1_Witness ==
    /\ last.op = "upload" /\ last.name = Name_a_t /\ last.out = Name_a_2_t
    /\ pre.fs = InitFs \cup {File(InUploadDir(Name_a_t), <<11>>),
                             File(InUploadDir(Name_a_1_t), <<21>>)}
    /\ fs = pre.fs \cup {File(InUploadDir(Name_a_2_t), <<31>>)}

IsPrefix(p, q) == Len(p) <= Len(q) /\ SubSeq(q, 1, Len(p)) = p
Outside(f) == {e \in f : ~IsPrefix(UPLOAD_FOLDER, e.path)}
Escapes(name) ==
    \/ name # <<>> /\ name[1] = Sep
    \/ \E i \in 1..Len(Segments(name)) : Segments(name)[i] = <<".", ".">>

\* C2: a request whose filename has a path-escaping segment ends in 400 or
\* 404 and changes nothing, and no file outside the upload directory is ever
\* created, overwritten or removed.
C2_TraversalRejected ==
    /\ Outside(fs) = Outside(InitFs)
    /\ (last.op \in {"upload", "download", "delete"} /\ Escapes(last.name))
        => (last.status \in {400, 404} /\ fs = pre.fs)

AllWhite(c) == \A i \in 1..Len(c) : c[i] \in WhiteSpace

C4_DeleteContract ==
    last.op = "delete" =>
        IF IsFile(pre.fs, InUploadDir(last.name))
        THEN last.status = 200 /\ fs = WithoutPath(pre.fs, InUploadDir(last.name))
        ELSE last.status = 404 /\ fs = pre.fs

IsTrimOf(c, s) ==
    \E i \in 0..Len(s), j \in 0..Len(s) :
        /\ i + j <= Len(s)
        /\ c = SubSeq(s, i + 1, Len(s) - j)
        /\ \A k \in 1..i : s[k] \in WhiteSpace
        /\ \A k \in (Len(s) - j + 1)..Len(s) : s[k] \in WhiteSpace
        /\ c # <<>> => (c[1] \notin WhiteSpace /\ c[Len(c)] \notin WhiteSpace)

NewestFirst(texts) ==
    \A i \in 1..Len(texts), j \in 1..Len(texts) : i < j => texts[i].born > texts[j].born

\* C5: a successful POST /text persists the previous list with one new
\* snippet at index 0 holding the trimmed content, the earlier snippets
\* unchanged and in order; the list is always in newest-first order.
C5_AddPrepends ==
    /\ (last.op = "add_text" /\ last.status = 200) =>
        LET old == Loaded(pre.textFile)
            new == Loaded(textFile)
        IN  /\ load_texts(textFile).ok
            /\ Len(new) = Len(old) + 1
            /\ \A i \in 1..Len(old) : new[i + 1] = old[i]
            /\ new[1].id = last.id
            /\ new[1].content # <<>>
            /\ IsTrimOf(new[1].content, last.body.content)
    /\ NewestFirst(Loaded(textFile))

\* " h\t" added to a list of two snippets
C5_Witness ==
    /\ last.op = "add_text" /\ last.status = 200
    /\ last.body = Content(<<" ", "h", "\t">>)
    /\ Len(Loaded(pre.textFile)) = 2
    /\ Len(Loaded(textFile)) = 3
    /\ Loaded(textFile)[1].content = <<"h">>
    /\ Loaded(textFile)[2].content = <<"h", " ", "h">>

\* C6: no two snippets of the persisted list have the same id.
C6_UniqueIds ==
    \A i \in 1..Len(Loaded(textFile)), j \in 1..Len(Loaded(textFile)) :
        i # j => Loaded(textFile)[i].id # Loaded(textFile)[j].id

Kept(texts, text_id) == {i \in 1..Len(texts) : texts[i].id # text_id}
KeptAt(texts, text_id, k) ==
    CHOOSE i \in Kept(texts, text_id) :
        Cardinality({j \in Kept(texts, text_id) : j <= i}) = k

\* C7: DELETE /text/{id} answers success and persists the loaded list
\* without the snippets of that id, the others in their order; an absent id
\* leaves the list as it was, and a second DELETE changes nothing more.
C7_RemoveById ==
    last.op = "delete_text" =>
        LET old == Loaded(pre.textFile)
            new == Loaded(textFile)
        IN  /\ last.status = 200
            /\ load_texts(textFile).ok
            /\ Len(new) = Cardinality(Kept(old, last.id))
            /\ \A k \in 1..Len(new) : new[k] = old[KeptAt(old, last.id, k)]
            /\ Kept(old, last.id) = 1..Len(old) => new = old
            /\ Loaded(delete_text(textFile, last.id).textFile) = new

\* DELETE of an id that two of three snippets carry
C7_Witness ==
    /\ last.op = "delete_text" /\ last.status = 200 /\ last.id = "id1"
    /\ Len(Loaded(pre.textFile)) = 3
    /\ Loaded(pre.textFile)[1].id = "id1"
    /\ Loaded(pre.textFile)[2].id = "id2"
    /\ Loaded(pre.textFile)[3].id = "id1"
    /\ Len(Loaded(textFile)) = 1

(***************************************************************************)
(* Concurrent requests.  Flask serves every request on a thread of its     *)
(* own, so the handlers interleave between their system calls: the read of *)
(* a load, the open (which truncates) and the write() calls of a save, and *)
(* each os.path.exists of the upload loop.  Every writer has its own file  *)
(* offset; a write puts its bytes at that offset over what is there.       *)
(***************************************************************************)
ConcBodies == {Content(<<" ", "\t">>), Content(<<" ", "h", "\t">>)}
ConcUploadNames == {<<>>, Name_a_t}
ChunkCounts == {1, 2}

Hole == [tok |-> "0", snippet |-> NoSnippet]

\* write(chunk) at offset off of a file holding bytes
WriteAt(bytes, off, chunk, hole) ==
    LET end == off + Len(chunk)
        size == IF Len(bytes) > end THEN Len(bytes) ELSE end
    IN  [i \in 1..size |->
            IF i > off /\ i <= end THEN chunk[i - off]
            ELSE IF i <= Len(bytes) THEN bytes[i]
            ELSE hole]

\* mutant: the file is opened without truncation
OpenKeep(tf) == [exists |-> TRUE, bytes |-> tf.bytes]

\* open(TEXT_FILE, 'w'): the file exists and is empty
OpenTruncate(tf) == [exists |-> TRUE, bytes |-> <<>>]

\* open(dst, "wb") of file.save: the file exists and is empty
CreateOrTruncate(f, filename) == SaveFile(f, filename, <<>>)

ConcInit == Init /\ fs = InitFs

seqVars == <<last, pre>>

Take(t, r, next) ==
    /\ pc[t] \in {"idle", "done"}
    /\ started < MaxRequests
    /\ started' = started + 1
    /\ req' = [req EXCEPT ![t] = r]
    /\ loc' = [loc EXCEPT ![t] = NoLocals]
    /\ resp' = [resp EXCEPT ![t] = NoResponse]
    /\ pc' = [pc EXCEPT ![t] = next]
    /\ undisturbed' = [undisturbed EXCEPT ![t] = FALSE]

Answer(t, status, out) ==
    /\ resp' = [resp EXCEPT ![t] = [status |-> status, out |-> out]]
    /\ pc' = [pc EXCEPT ![t] = "done"]

\* POST /text up to its validation, which reads nothing shared
StartAddText(t) ==
    /\ \E body \in ConcBodies, id \in Ids :
        IF Rejected(body)
        THEN /\ id = "id1"
             /\ Take(t, [Idle EXCEPT !.op = "add_text", !.body = body], "reject")
             /\ UNCHANGED nAdds
        ELSE /\ Take(t, [Idle EXCEPT !.op = "add_text", !.body = body, !.id = id,
                                     !.time = "t1", !.born = nAdds + 1], "add_load")
             /\ nAdds' = nAdds + 1
    /\ UNCHANGED <<fs, textFile, nUploads, seqVars>>

Reject(t) ==
    /\ pc[t] = "reject"
    /\ Answer(t, 400, <<>>)
    /\ UNCHANGED <<fs, textFile, nUploads, nAdds, seqVars, req, loc, started, undisturbed>>

\* texts = load_texts(); texts.insert(0, {...})
AddLoad(t) ==
    /\ pc[t] = "add_load"
    /\ LET r == load_texts(textFile)
           new == Snippet(req[t].body, req[t].id, req[t].time, req[t].born)
       IN  IF r.ok
           THEN /\ loc' = [loc EXCEPT ![t].loaded = r.texts,
                                      ![t].texts = insert0(r.texts, new)]
                /\ pc' = [pc EXCEPT ![t] = "save_open"]
                /\ UNCHANGED resp
           ELSE Answer(t, 500, <<>>) /\ UNCHANGED loc
    /\ UNCHANGED <<fs, textFile, nUploads, nAdds, seqVars, req, started, undisturbed>>

StartDeleteText(t) ==
    /\ \E text_id \in Ids :
        Take(t, [Idle EXCEPT !.op = "delete_text", !.id = text_id], "delete_load")
    /\ UNCHANGED <<fs, textFile, nUploads, nAdds, seqVars>>

\* texts = load_texts(); texts = [t for t in texts if t['id'] != text_id]
DeleteLoad(t) ==
    /\ pc[t] = "delete_load"
    /\ LET r == load_texts(textFile)
       IN  IF r.ok
           THEN /\ loc' = [loc EXCEPT ![t].loaded = r.texts,
                                      ![t].texts = WithoutId(r.texts, req[t].id)]
                /\ pc' = [pc EXCEPT ![t] = "save_open"]
                /\ UNCHANGED resp
           ELSE Answer(t, 500, <<>>) /\ UNCHANGED loc
    /\ UNCHANGED <<fs, textFile, nUploads, nAdds, seqVars, req, started, undisturbed>>

\* save_texts([])
StartClearTexts(t) ==
    /\ Take(t, [Idle EXCEPT !.op = "clear_texts"], "save_open")
    /\ UNCHANGED <<fs, textFile, nUploads, nAdds, seqVars>>

\* save_texts: open(TEXT_FILE, 'w')
SaveOpen(t) ==
    /\ pc[t] = "save_open"
    /\ textFile' = OpenTruncate(textFile)
    /\ loc' = [loc EXCEPT ![t].off = 0]
    /\ pc' = [pc EXCEPT ![t] = "save_write"]
    /\ undisturbed' = [u \in Threads |-> u = t]
    /\ UNCHANGED <<fs, nUploads, nAdds, seqVars, req, resp, started>>

\* save_texts: json.dump reaches the file in one write() or in several, the
\* last of them when the with block closes the file
SaveWrite(t) ==
    /\ pc[t] = "save_write"
    /\ LET doc == dump(loc[t].texts)
       IN  \E n \in 1..(Len(doc) - loc[t].off) :
            /\ textFile' = [textFile EXCEPT !.bytes =
                   WriteAt(@, loc[t].off, SubSeq(doc, loc[t].off + 1, loc[t].off + n), Hole)]
            /\ loc' = [loc EXCEPT ![t].off = @ + n]
            /\ IF loc[t].off + n = Len(doc)
               THEN Answer(t, 200, <<>>)
               ELSE UNCHANGED <<pc, resp>>
    /\ undisturbed' = [u \in Threads |-> u = t /\ undisturbed[t]]
    /\ UNCHANGED <<fs, nUploads, nAdds, seqVars, req, started>>

StartIndex(t) ==
    /\ Take(t, [Idle EXCEPT !.op = "index"], "index_files")
    /\ UNCHANGED <<fs, textFile, nUploads, nAdds, seqVars>>

\* files = get_files()
IndexFiles(t) ==
    /\ pc[t] = "index_files"
    /\ pc' = [pc EXCEPT ![t] = "index_load"]
    /\ UNCHANGED <<fs, textFile, nUploads, nAdds, seqVars, req, loc, resp, started, undisturbed>>

\* texts = load_texts(); render_template
IndexLoad(t) ==
    /\ pc[t] = "index_load"
    /\ Answer(t, index(fs, textFile).status, <<>>)
    /\ UNCHANGED <<fs, textFile, nUploads, nAdds, seqVars, req, loc, started, undisturbed>>

TextConcNext ==
    \E t \in Threads :
        \/ StartAddText(t)
        \/ Reject(t)
        \/ AddLoad(t)
        \/ StartDeleteText(t)
        \/ DeleteLoad(t)
        \/ StartClearTexts(t)
        \/ SaveOpen(t)
        \/ SaveWrite(t)
        \/ StartIndex(t)
        \/ IndexFiles(t)
        \/ IndexLoad(t)

TextConcSpec == ConcInit /\ [][TextConcNext]_vars

\* POST /upload up to its two 400 answers, which read nothing shared
StartUpload(t) ==
    /\ \E name \in ConcUploadNames, chunks \in ChunkCounts :
        IF name = <<>>
        THEN /\ chunks = 1
             /\ Take(t, [Idle EXCEPT !.op = "upload"], "reject")
             /\ UNCHANGED nUploads
        ELSE /\ Take(t, [Idle EXCEPT !.op = "upload", !.name = name,
                                     !.data = Data(nUploads + 1, chunks)], "upload_begin")
             /\ nUploads' = nUploads + 1
    /\ UNCHANGED <<fs, textFile, nAdds, seqVars>>

\* filename = file.filename; counter = 1
UploadBegin(t) ==
    /\ pc[t] = "upload_begin"
    /\ loc' = [loc EXCEPT ![t].filename = req[t].name, ![t].counter = 1]
    /\ pc' = [pc EXCEPT ![t] = "upload_exists"]
    /\ UNCHANGED <<fs, textFile, nUploads, nAdds, seqVars, req, resp, started, undisturbed>>

\* one test of the while loop, and its body when the name exists
UploadExists(t) ==
    /\ pc[t] = "upload_exists"
    /\ IF exists(fs, loc[t].filename)
       THEN /\ loc' = [loc EXCEPT
                   ![t].filename = splitext(req[t].name).base \o <<"_">>
                                   \o str(loc[t].counter) \o splitext(req[t].name).ext,
                   ![t].counter = @ + 1]
            /\ UNCHANGED pc
       ELSE /\ pc' = [pc EXCEPT ![t] = "upload_open"]
            /\ UNCHANGED loc
    /\ UNCHANGED <<fs, textFile, nUploads, nAdds, seqVars, req, resp, started, undisturbed>>

SamePath(t, u) ==
    Resolve(fs, loc[t].filename).path = Resolve(fs, loc[u].filename).path

\* file.save: open(dst, "wb")
UploadOpen(t) ==
    /\ pc[t] = "upload_open"
    /\ IF CanOpenForWrite(fs, loc[t].filename)
       THEN /\ fs' = CreateOrTruncate(fs, loc[t].filename)
            /\ loc' = [loc EXCEPT ![t].off = 0]
            /\ pc' = [pc EXCEPT ![t] = "upload_write"]
            /\ undisturbed' = [u \in Threads |->
                   u = t \/ (undisturbed[u] /\ ~SamePath(t, u))]
            /\ UNCHANGED resp
       ELSE /\ Answer(t, 500, <<>>)
            /\ UNCHANGED <<fs, loc, undisturbed>>
    /\ UNCHANGED <<textFile, nUploads, nAdds, seqVars, req, started>>

\* file.save: one write() of copyfileobj; the file is closed after the last
UploadWrite(t) ==
    /\ pc[t] = "upload_write"
    /\ LET p == Resolve(fs, loc[t].filename).path
           chunk == <<req[t].data[loc[t].off + 1]>>
       IN  fs' = WithoutPath(fs, p)
                 \cup {File(p, WriteAt(Entry(fs, p).data, loc[t].off, chunk, 0))}
    /\ loc' = [loc EXCEPT ![t].off = @ + 1]
    /\ IF loc[t].off + 1 = Len(req[t].data)
       THEN Answer(t, 200, loc[t].filename)
       ELSE UNCHANGED <<pc, resp>>
    /\ undisturbed' = [u \in Threads |->
           IF u = t THEN undisturbed[t] ELSE undisturbed[u] /\ ~SamePath(t, u)]
    /\ UNCHANGED <<textFile, nUploads, nAdds, seqVars, req, started>>

FileConcNext ==
    \E t \in Threads :
        \/ StartUpload(t)
        \/ Reject(t)
        \/ UploadBegin(t)
        \/ UploadExists(t)
        \/ UploadOpen(t)
        \/ UploadWrite(t)

FileConcSpec == ConcInit /\ [][FileConcNext]_vars

(***************************************************************************)
(* Properties of concurrent requests.                                      *)
(***************************************************************************)
Done(t, op) == pc[t] = "done" /\ req[t].op = op

\* C8: the text file is always missing or one whole JSON array, and no
\* load of a concurrent request fails on it.
C8_AtomicSave ==
    /\ textFile.exists => IsDocument(textFile.bytes)
    /\ \A t \in Threads : resp[t].status # 500

Mutation(t) == Done(t, "add_text") \/ Done(t, "delete_text")

IsModificationOf(t, texts) ==
    IF req[t].op = "add_text"
    THEN /\ Len(texts) = Len(loc[t].loaded) + 1
         /\ texts[1].born = req[t].born
         /\ texts[1].id = req[t].id
         /\ \A i \in 1..Len(loc[t].loaded) : texts[i + 1] = loc[t].loaded[i]
    ELSE /\ Len(texts) = Cardinality(Kept(loc[t].loaded, req[t].id))
         /\ \A k \in 1..Len(texts) :
                texts[k] = loc[t].loaded[KeptAt(loc[t].loaded, req[t].id, k)]

\* C9: a text mutation that got past its load answers success, and when no
\* other save has touched the file since this one opened it, the file holds
\* exactly this request's modification of the list it loaded, whatever was
\* saved between that load and this save.
C9_StaleWriteBack ==
    \A t \in Threads :
        (Mutation(t) /\ resp[t].status \notin {400, 500}) =>
            /\ resp[t].status = 200
            /\ undisturbed[t] =>
                /\ textFile.exists /\ IsDocument(textFile.bytes)
                /\ IsModificationOf(t, load(textFile.bytes))

\* two POST /text loaded the same list, both answered success, and only the
\* snippet of one of them is in the file
C9_Witness ==
    \E t \in Threads, u \in Threads :
        /\ t # u
        /\ Done(t, "add_text") /\ resp[t].status = 200
        /\ Done(u, "add_text") /\ resp[u].status = 200
        /\ loc[t].loaded = loc[u].loaded
        /\ undisturbed[u]
        /\ load_texts(textFile).ok
        /\ Len(Loaded(textFile)) = Len(loc[u].loaded) + 1
        /\ Loaded(textFile)[1].born = req[u].born
        /\ \A i \in 1..Len(Loaded(textFile)) : Loaded(textFile)[i].born # req[t].born

\* a DELETE /text/{id} that loaded before a clear saved wrote its list back
C9_StaleRemoveUndoesClear ==
    \E t \in Threads, u \in Threads :
        /\ t # u
        /\ Done(t, "delete_text") /\ resp[t].status = 200
        /\ Done(u, "clear_texts") /\ resp[u].status = 200
        /\ undisturbed[t]
        /\ loc[t].texts # <<>>
        /\ load_texts(textFile).ok
        /\ Loaded(textFile) = loc[t].texts

\* C10: an upload opens the candidate that its last existence test found
\* free without testing again: it is answered success with that candidate,
\* and when no other upload has opened or written that file since, the file
\* holds exactly this upload's bytes.
C10_CheckThenAct ==
    \A t \in Threads :
        (Done(t, "upload") /\ resp[t].status # 400) =>
            /\ resp[t].status = 200
            /\ resp[t].out = loc[t].filename
            /\ IsFile(fs, InUploadDir(resp[t].out))
            /\ undisturbed[t] => Entry(fs, InUploadDir(resp[t].out)).data = req[t].data

\* two uploads of one name both got that name back with success, and the
\* file holds the bytes of one of them only
C10_Witness ==
    \E t \in Threads, u \in Threads :
        /\ t # u
        /\ Done(t, "upload") /\ resp[t].status = 200
        /\ Done(u, "upload") /\ resp[u].status = 200
        /\ req[t].name = req[u].name
        /\ resp[t].out = req[t].name
        /\ resp[u].out = req[u].name
        /\ req[t].data # req[u].data
        /\ Entry(fs, InUploadDir(resp[u].out)).data = req[u].data
        /\ Cardinality({e \in fs : e.kind = "file"}) = 1

====
